---------------------------- MODULE Spec2Model ----------------------------
(***************************************************************************)
(* A model of the alarm lifecycle of the AlarmClock application: the       *)
(* record store (services/alarmStorage.ts), the scheduling service         *)
(* (services/notificationService.ts), the native exact-timer module        *)
(* (AlarmModule.java, AlarmReceiver.java, AlarmActivity.java,              *)
(* AlarmEventModule.java), the event service (alarmEventService.ts) and    *)
(* the in-app ringing screen (app/alarm-ring.tsx).                         *)
(*                                                                         *)
(* Time.  An instant (a JavaScript Date, a Java long of milliseconds) is a *)
(* natural number of clock ticks.  A minute of the hour:minute grid holds  *)
(* TicksPerMinute ticks, a day holds MinutesPerDay minutes; the pair       *)
(* (getHours(), getMinutes()) is the minute-of-day index.  Day 0 is a      *)
(* Thursday, as the epoch is.  Daylight-saving shifts are not modelled.    *)
(*                                                                         *)
(* Strings.  An alarm id, a timer key and a handle are sequences of        *)
(* character codes, so that prefixing, startsWith, replace and hashCode    *)
(* are computed as the code computes them.                                 *)
(***************************************************************************)
EXTENDS Integers, Sequences, FiniteSets, TLC

\* ------------------------------------------------------------------ bounds
MinutesPerDay == 2
TicksPerMinute == 2
\* The clock of the lifecycle specification stops advancing here.
MaxDays == 3
\* The calculator specification draws now from the first CalcDays days and the
\* stored alarm time from the first CalcAlarmDays days.
CalcDays == 7
CalcAlarmDays == 2
\* Expo notification identifiers handed out in one behaviour.
MaxExpo == 2
\* Broadcasts in flight between AlarmActivity and the event module.
MaxInbox == 1
\* Operations the user issues through the coordinator in one behaviour.
MaxEdits == 2
\* Asynchronous handlers started in one behaviour of the interleaving
\* specification.
MaxTasks == 2
\* The store specification draws the time of the alarms it is called with from
\* 0 .. MaxStoreTime.
MaxStoreTime == 1
\* Calls of playAlarmSound and stopAlarmSound in one behaviour of the audio
\* specification.
MaxCalls == 3
\* Calls of AlarmEventService.initialize in one behaviour of the listener
\* specification.
MaxInits == 3

\* The snooze delay, in minutes (5 * 60 * 1000 ms).
SnoozeMinutes == 5

TicksPerDay == MinutesPerDay * TicksPerMinute
MaxNow == MaxDays * TicksPerDay

\* ------------------------------------------------------------ date algebra
DayOf(t) == t \div TicksPerDay
\* Date.getHours() and Date.getMinutes(), as one minute-of-day index.
GetMinuteOfDay(t) == (t % TicksPerDay) \div TicksPerMinute
\* Date.getDay(): 0 = Sunday .. 6 = Saturday; day 0 of the clock is a Thursday.
GetDay(t) == (DayOf(t) + 4) % 7
\* Date.setHours(h, m, 0, 0): same calendar day, seconds and milliseconds zeroed.
SetHours(t, m) == DayOf(t) * TicksPerDay + m * TicksPerMinute
\* Date.setDate(getDate() + 1): same time of day, next calendar day.
AddDay(t) == t + TicksPerDay

RepeatDay == {"Mon", "Tue", "Wed", "Thu", "Fri", "Sat", "Sun"}

\* Weekday numbers 1 = Monday .. 7 = Sunday.
dayMapIso(day) ==
    CASE day = "Sun" -> 7 [] day = "Mon" -> 1 [] day = "Tue" -> 2
      [] day = "Wed" -> 3 [] day = "Thu" -> 4 [] day = "Fri" -> 5
      [] day = "Sat" -> 6

dayMap(day) ==
    CASE day = "Sun" -> 0 [] day = "Mon" -> 1 [] day = "Tue" -> 2
      [] day = "Wed" -> 3 [] day = "Thu" -> 4 [] day = "Fri" -> 5
      [] day = "Sat" -> 6

\* The day scan of getNextOccurrence: at most 7 candidates, then the fallback.
RECURSIVE ScanDays(_, _, _, _)
ScanDays(candidate, repeatDayNumbers, i, fallback) ==
    IF i >= 7 THEN fallback
    ELSE IF GetDay(candidate) \in repeatDayNumbers THEN candidate
    ELSE ScanDays(AddDay(candidate), repeatDayNumbers, i + 1, fallback)

\* The first candidate of the scan: today at the alarm's hour and minute,
\* advanced one day when it is not after now.
FirstCandidateLax(today, m, now) ==
    LET c == SetHours(today, m) IN IF c < now THEN AddDay(c) ELSE c

FirstCandidate(today, m, now) ==
    LET c == SetHours(today, m) IN IF c <= now THEN AddDay(c) ELSE c

\* getNextOccurrence(alarmTime, repeatDays).  now is the clock read of lines
\* 255 and 261, today the clock read of lines 274 and 293.
GetNextOccurrence(alarmTime, repeatDays, now, today) ==
    IF repeatDays = {}
    THEN IF alarmTime < now THEN AddDay(alarmTime) ELSE alarmTime
    ELSE LET m == GetMinuteOfDay(alarmTime)
             repeatDayNumbers == {dayMap(d) : d \in repeatDays}
         IN  ScanDays(FirstCandidate(today, m, now), repeatDayNumbers, 0,
                      AddDay(SetHours(today, m)))

\* The trigger instant scheduleNativeAlarm computes for an alarm.
TriggerDate(alarmTime, repeatDays, now) ==
    IF repeatDays # {}
    THEN GetNextOccurrence(alarmTime, repeatDays, now, now)
    ELSE IF alarmTime < now THEN AddDay(alarmTime) ELSE alarmTime


\* ----------------------------------------------------------------- strings
\* "native-" and "snooze-" as character codes.
NativePrefix == <<110, 97, 116, 105, 118, 101, 45>>
SnoozePrefix == <<115, 110, 111, 111, 122, 101, 45>>

\* The alarm ids of the model: "1" (the editor's ids are the digits of
\* Date.now()).
Ids == {<<49>>}

\* String.prototype.startsWith.
StartsWith(s, p) == Len(s) >= Len(p) /\ SubSeq(s, 1, Len(p)) = p

\* String.prototype.replace(p, ''): the first occurrence of p removed.
Replace(s, p) ==
    LET hits == {i \in 1..(Len(s) - Len(p) + 1) : SubSeq(s, i, i + Len(p) - 1) = p}
    IN  IF hits = {} THEN s
        ELSE LET i == CHOOSE j \in hits : \A k \in hits : j <= k
             IN  SubSeq(s, 1, i - 1) \o SubSeq(s, i + Len(p), Len(s))

\* java.lang.String.hashCode(): h = 31 * h + c over the characters, in 32 bits.
\* The 32-bit value is kept as its two 16-bit halves <<high, low>>.
RECURSIVE HashFrom(_, _, _, _)
HashFrom(s, i, hi, lo) ==
    IF i > Len(s) THEN <<hi, lo>>
    ELSE LET l == lo * 31 + s[i]
             h == hi * 31 + (l \div 65536)
         IN  HashFrom(s, i + 1, h % 65536, l % 65536)

hashCode(s) == HashFrom(s, 1, 0, 0)

\* ------------------------------------------------------------------- state
VARIABLES
    now,              \* the wall clock, in ticks
    nativeAvailable,  \* AlarmModule.isAvailable(): Android with the native module
    notifGranted,     \* the notification permission
    exactAllowed,     \* AlarmManager.canScheduleExactAlarms()
    alarms,           \* the alarms table: id -> row
    pending,          \* AlarmManager: the pending exact alarms
    notification,     \* the status-bar notification NOTIFICATION_ID = 1001
    activity,         \* the AlarmActivity on screen
    inbox,            \* ALARM_ACTION broadcasts sent and not yet received
    jsRunning,        \* the React context is alive and the listener subscribed
    expo,             \* expo-notifications: the scheduled notifications
    nextExpo,         \* the next expo notification identifier
    ringScreen,       \* the in-app ringing screens open (alarm-ring.tsx)
    edits,            \* the coordinator operations issued so far
    last,             \* the operation that produced this state
    calcIn,           \* calculator specification: the inputs drawn
    calcOut,          \* calculator specification: the instant computed
    firing,           \* the latest firing and the ringing screens opened for it
    tasks,            \* the asynchronous handlers started, in order of start
    audio,            \* audioService.ts: soundObject, isPlaying and the players
    emitter           \* the 'AlarmEvent' listeners and the service's subscription

vars == <<now, nativeAvailable, notifGranted, exactAllowed, alarms, pending,
          notification, activity, inbox, jsRunning, expo, nextExpo, ringScreen,
          edits, last, calcIn, calcOut, firing, tasks, audio, emitter>>

platformVars == <<nativeAvailable, notifGranted, exactAllowed>>
calcVars == <<calcIn, calcOut>>
userVars == <<edits, calcIn, calcOut>>
nativeUiVars == <<notification, activity, inbox>>
serviceVars == <<audio, emitter>>

\* An optional value is the empty set or a singleton.
None == {}
Some(x) == {x}
The(o) == CHOOSE x \in o : TRUE

\* ------------------------------------------------- AlarmModule.java (native)
\* PendingIntent.getBroadcast(.., requestCode, intent, FLAG_UPDATE_CURRENT)
\* followed by AlarmManager.setExactAndAllowWhileIdle: the PendingIntent is
\* identified by its request code, its extras are replaced, and an alarm
\* already set for it is replaced.  Without the exact-alarm permission the
\* set call throws and the promise is rejected.
scheduleAlarmAdditive(p, alarmId, triggerTime, isRepeating) ==
    p \cup {[requestCode |-> hashCode(alarmId), alarmId |-> alarmId,
             triggerTime |-> triggerTime, isRepeating |-> isRepeating]}

scheduleAlarm(p, alarmId, triggerTime, isRepeating) ==
    {e \in p : e.requestCode # hashCode(alarmId)}
        \cup {[requestCode |-> hashCode(alarmId), alarmId |-> alarmId,
               triggerTime |-> triggerTime, isRepeating |-> isRepeating]}

\* The extras of a PendingIntent already alive are updated even when the set
\* call that follows throws.
updateExtras(p, alarmId, isRepeating) ==
    {IF e.requestCode = hashCode(alarmId)
     THEN [e EXCEPT !.alarmId = alarmId, !.isRepeating = isRepeating]
     ELSE e : e \in p}

\* AlarmManager.cancel(pendingIntent); pendingIntent.cancel().
cancelAlarm(p, alarmId) == {e \in p : e.requestCode # hashCode(alarmId)}

\* AlarmModule.cancelAllAlarms: a placeholder that logs and resolves; nothing
\* is cancelled.
cancelAllAlarms(p) == p

\* --------------------------------------------------- notificationService.ts
\* The gateways' state threaded through the service: g.pending, g.expo,
\* g.nextExpo.
Gateway == [pending |-> pending, expo |-> expo, nextExpo |-> nextExpo]

\* An expo notification identifier: "e" followed by a digit.
ExpoId(n) == <<101, 48 + n>>

\* The handle passed to AlarmModule.cancelAlarm as it is, "native-" included.
cancelNotificationWhole(g, notificationId) ==
    IF StartsWith(notificationId, NativePrefix)
    THEN IF nativeAvailable
         THEN [g EXCEPT !.pending = cancelAlarm(g.pending, notificationId)]
         ELSE g
    ELSE [g EXCEPT !.expo = {n \in g.expo : n.identifier # notificationId}]

\* cancelNotification(notificationId): a handle that starts with "native-" is
\* stripped of it and cancelled in AlarmManager, any other in expo-notifications.
cancelNotification(g, notificationId) ==
    IF StartsWith(notificationId, NativePrefix)
    THEN LET alarmId == Replace(notificationId, NativePrefix)
         IN  IF nativeAvailable
             THEN [g EXCEPT !.pending = cancelAlarm(g.pending, alarmId)]
             ELSE g
    ELSE [g EXCEPT !.expo = {n \in g.expo : n.identifier # notificationId}]

\* cancelAllNotifications(): AlarmModule.cancelAllAlarms() where the module is
\* available, then Notifications.cancelAllScheduledNotificationsAsync().
cancelAllNotifications(g) ==
    [g EXCEPT !.pending = IF nativeAvailable THEN cancelAllAlarms(g.pending)
                          ELSE g.pending,
              !.expo = {}]

\* cancelAlarmNotifications(alarm).
cancelAlarmNotifications(g, alarm) ==
    IF alarm.notificationId # None /\ The(alarm.notificationId) # <<>>
    THEN cancelNotification(g, The(alarm.notificationId))
    ELSE g

\* The scheduling call taken to succeed whatever AlarmManager answers.
scheduleNativeAlarmUnchecked(g, id, alarm) ==
    [ok |-> TRUE,
     g |-> [g EXCEPT !.pending =
               scheduleAlarm(g.pending, id,
                             TriggerDate(alarm.time, alarm.repeatDays, now),
                             alarm.repeatDays # {})]]

\* scheduleNativeAlarm(alarm): [ok, g].
scheduleNativeAlarm(g, id, alarm) ==
    LET isRepeating == alarm.repeatDays # {}
        triggerDate == TriggerDate(alarm.time, alarm.repeatDays, now)
    IN  IF exactAllowed
        THEN [ok |-> TRUE,
              g |-> [g EXCEPT !.pending =
                        scheduleAlarm(g.pending, id, triggerDate, isRepeating)]]
        ELSE [ok |-> FALSE,
              g |-> [g EXCEPT !.pending = updateExtras(g.pending, id, isRepeating)]]

\* Notifications.scheduleNotificationAsync of the fallback path.
expoSchedule(g, alarmId, isSnooze, trigger) ==
    [g EXCEPT !.expo = g.expo \cup {[identifier |-> ExpoId(g.nextExpo),
                                     alarmId |-> alarmId, isSnooze |-> isSnooze,
                                     trigger |-> trigger]},
              !.nextExpo = g.nextExpo + 1]

\* A trigger and the instant it fires next.  A CALENDAR trigger {hour, minute,
\* repeats: true} fires at that time of day every day; a DATE trigger once.
NextCalendar(m, t) ==
    LET c == SetHours(t, m) IN IF c <= t THEN AddDay(c) ELSE c

CalendarTrigger(m) == [type |-> "CALENDAR", minute |-> m, date |-> NextCalendar(m, now)]
DateTrigger(t) == [type |-> "DATE", minute |-> 0, date |-> t]

\* scheduleAlarmNotification(alarm): [handle, g], handle None for null.
scheduleAlarmNotification(g, id, alarm) ==
    IF ~notifGranted THEN [handle |-> None, g |-> g]
    ELSE LET g1 == cancelAlarmNotifications(g, alarm) IN
         IF nativeAvailable
         THEN LET r == scheduleNativeAlarm(g1, id, alarm)
              IN  [handle |-> IF r.ok THEN Some(NativePrefix \o id) ELSE None,
                   g |-> r.g]
         ELSE IF alarm.repeatDays # {}
         THEN [handle |-> Some(ExpoId(g1.nextExpo)),
               g |-> expoSchedule(g1, id, FALSE,
                                  CalendarTrigger(GetMinuteOfDay(alarm.time)))]
         ELSE [handle |-> Some(ExpoId(g1.nextExpo)),
               g |-> expoSchedule(g1, id, FALSE,
                        DateTrigger(IF alarm.time < now THEN AddDay(alarm.time)
                                    ELSE alarm.time))]

\* A snooze armed the way an alarm is: under the alarm's own key, what the
\* alarm has scheduled being cancelled first.
scheduleSnoozeAsRearm(g, time, alarmId) ==
    IF nativeAvailable
    THEN IF exactAllowed
         THEN [handle |-> Some(NativePrefix \o alarmId),
               g |-> [g EXCEPT !.pending =
                         scheduleAlarm(g.pending, alarmId, time, FALSE)]]
         ELSE [handle |-> None, g |-> g]
    ELSE LET g1 == [g EXCEPT !.expo = {n \in g.expo : n.alarmId # alarmId}]
         IN  [handle |-> Some(ExpoId(g1.nextExpo)),
              g |-> expoSchedule(g1, alarmId, TRUE, DateTrigger(time))]

\* scheduleSnoozeNotification({time, label, alarmId}): [handle, g].
scheduleSnoozeNotification(g, time, alarmId) ==
    IF nativeAvailable
    THEN IF exactAllowed
         THEN [handle |-> Some(NativePrefix \o SnoozePrefix \o alarmId),
               g |-> [g EXCEPT !.pending =
                         scheduleAlarm(g.pending, SnoozePrefix \o alarmId, time, FALSE)]]
         ELSE [handle |-> None,
               g |-> [g EXCEPT !.pending =
                         updateExtras(g.pending, SnoozePrefix \o alarmId, FALSE)]]
    ELSE [handle |-> Some(ExpoId(g.nextExpo)),
          g |-> expoSchedule(g, alarmId, TRUE, DateTrigger(time))]


\* ----------------------------------------------------------- alarmStorage.ts
\* alarmToRow: enabled as 1 / 0, notificationId || null.
alarmToRow(alarm) ==
    [time |-> alarm.time,
     enabled |-> IF alarm.enabled THEN 1 ELSE 0,
     repeatDays |-> alarm.repeatDays,
     notificationId |-> IF alarm.notificationId = Some(<<>>) THEN None
                        ELSE alarm.notificationId]

\* rowToAlarm: enabled === 1, notificationId || undefined.
rowToAlarm(row) ==
    [time |-> row.time,
     enabled |-> row.enabled = 1,
     repeatDays |-> row.repeatDays,
     notificationId |-> IF row.notificationId = Some(<<>>) THEN None
                        ELSE row.notificationId]

\* getAlarmById(id): the record, or None for null.
getAlarmById(tbl, id) ==
    IF id \in DOMAIN tbl THEN Some(rowToAlarm(tbl[id])) ELSE None

\* INSERT INTO alarms.
addAlarm(tbl, id, alarm) ==
    [k \in DOMAIN tbl \cup {id} |-> IF k = id THEN alarmToRow(alarm) ELSE tbl[k]]

\* The UPDATE without its WHERE clause: every row takes the values.
updateAlarmEvery(tbl, id, alarm) ==
    [k \in DOMAIN tbl |-> alarmToRow(alarm)]

\* UPDATE alarms SET time, label, enabled, repeatDays, notificationId WHERE id.
updateAlarm(tbl, id, alarm) ==
    [k \in DOMAIN tbl |-> IF k = id THEN alarmToRow(alarm) ELSE tbl[k]]

\* DELETE FROM alarms WHERE id.
deleteAlarm(tbl, id) == [k \in DOMAIN tbl \ {id} |-> tbl[k]]

\* A toggle that enables, whatever the record holds.
toggleAlarmSetEnabled(tbl, id) ==
    [tbl EXCEPT ![id].enabled = 1]

\* toggleAlarm(id), for an id that is present: UPDATE alarms SET enabled.
toggleAlarm(tbl, id) ==
    [tbl EXCEPT ![id].enabled = IF rowToAlarm(tbl[id]).enabled THEN 0 ELSE 1]

\* ------------------------------------------------------------------ actions
\* last: the operation, the id or key it was about, and one fact of the state
\* it started from (dismiss: the record was enabled; arm: a timer was pending
\* for the key); for a call of scheduleAlarmNotification, what it returned.
Op(op, key, pre) == [op |-> op, key |-> key, pre |-> pre, result |-> None]

WasEnabled(id) == id \in DOMAIN alarms /\ rowToAlarm(alarms[id]).enabled
WasPending(key) == \E e \in pending : e.requestCode = hashCode(key)

SetGateway(g) ==
    /\ pending' = g.pending
    /\ expo' = g.expo
    /\ nextExpo' = g.nextExpo

\* The instants at which something is due: an exact alarm, an expo trigger.
DueNative == {e \in pending : e.triggerTime <= now}
DueExpo == {n \in expo : n.trigger.date <= now}

\* The clock advances one tick; the platform delivers what is due first.
Tick ==
    /\ now < MaxNow
    /\ DueNative = {} /\ DueExpo = {}
    /\ now' = now + 1
    /\ last' = Op("tick", <<>>, FALSE)
    /\ UNCHANGED <<platformVars, serviceVars, firing, tasks, alarms, pending, nativeUiVars, jsRunning, expo,
                   nextExpo, ringScreen, userVars>>

\* AlarmReceiver.onReceive: the exact alarm e fires.  The notification 1001 is
\* posted with the full-screen intent and AlarmActivity is started for the
\* alarm id of the extras.  Nothing is re-armed, whatever isRepeating says.
AlarmReceiverOnReceive(e) ==
    /\ e \in DueNative
    /\ pending' = pending \ {e}
    /\ notification' = Some(e.alarmId)
    /\ activity' = Some(e.alarmId)
    /\ firing' = [key |-> e.alarmId, snooze |-> StartsWith(e.alarmId, SnoozePrefix),
                  screens |-> 1, shown |-> FALSE]
    /\ last' = Op("fire", e.alarmId, FALSE)
    /\ UNCHANGED <<now, platformVars, serviceVars, tasks, alarms, inbox, jsRunning, expo, nextExpo,
                   ringScreen, userVars>>

\* The user taps the notification: its content intent starts AlarmActivity
\* again with the same extras, and auto-cancel removes the notification.  With
\* the activity still on screen CLEAR_TOP replaces it; after it has finished,
\* the tap opens a ringing screen once more.
TapNotification ==
    /\ notification # None
    /\ activity' = notification
    /\ notification' = None
    /\ firing' = IF activity = None
                 THEN [firing EXCEPT !.screens = @ + 1]
                 ELSE firing
    /\ last' = Op("tap", The(notification), FALSE)
    /\ UNCHANGED <<now, platformVars, serviceVars, tasks, alarms, pending, inbox, jsRunning, expo,
                   nextExpo, ringScreen, userVars>>

\* AlarmActivity.handleDismiss / handleSnooze: sendEventToReactNative, finish.
sendEventToReactNative(eventType) ==
    /\ activity # None
    /\ Len(inbox) < MaxInbox
    /\ inbox' = Append(inbox, [eventType |-> eventType, alarmId |-> The(activity)])
    /\ activity' = None
    /\ last' = Op("click", The(activity), FALSE)
    /\ UNCHANGED <<now, platformVars, serviceVars, firing, tasks, alarms, pending, notification, jsRunning,
                   expo, nextExpo, ringScreen, userVars>>

ActivityDismiss == sendEventToReactNative("ALARM_DISMISSED")
ActivitySnooze == sendEventToReactNative("ALARM_SNOOZED")

\* AlarmEventModule.sendEvent with no active React context (or the process
\* dead and no receiver registered): the broadcast is logged and dropped.
DropEvent ==
    /\ inbox # <<>>
    /\ ~jsRunning
    /\ inbox' = Tail(inbox)
    /\ last' = Op("drop", Head(inbox).alarmId, FALSE)
    /\ UNCHANGED <<now, platformVars, serviceVars, firing, tasks, alarms, pending, notification, activity,
                   jsRunning, expo, nextExpo, ringScreen, userVars>>

\* AlarmEventService.handleDismiss(alarmId), on the ALARM_DISMISSED event.
HandleDismiss ==
    /\ inbox # <<>>
    /\ jsRunning
    /\ Head(inbox).eventType = "ALARM_DISMISSED"
    /\ LET alarmId == Head(inbox).alarmId
           alarm == getAlarmById(alarms, alarmId)
       IN  /\ inbox' = Tail(inbox)
           /\ last' = Op("dismiss", alarmId, WasEnabled(alarmId))
           /\ IF alarm = None
              THEN UNCHANGED <<alarms, pending, expo, nextExpo>>
              ELSE IF The(alarm).repeatDays = {}
              THEN /\ alarms' = toggleAlarm(alarms, alarmId)
                   /\ UNCHANGED <<pending, expo, nextExpo>>
              ELSE /\ SetGateway(scheduleAlarmNotification(Gateway, alarmId,
                                                           The(alarm)).g)
                   /\ UNCHANGED alarms
    /\ UNCHANGED <<now, platformVars, serviceVars, firing, tasks, notification, activity, jsRunning,
                   ringScreen, userVars>>


\* AlarmEventService.handleSnooze(alarmId), on the ALARM_SNOOZED event.
HandleSnooze ==
    /\ inbox # <<>>
    /\ jsRunning
    /\ Head(inbox).eventType = "ALARM_SNOOZED"
    /\ LET alarmId == Head(inbox).alarmId
           alarm == getAlarmById(alarms, alarmId)
           snoozeTime == now + SnoozeMinutes * TicksPerMinute
       IN  /\ inbox' = Tail(inbox)
           /\ last' = Op("snooze", alarmId, FALSE)
           /\ IF alarm = None
              THEN UNCHANGED <<pending, expo, nextExpo>>
              ELSE SetGateway(scheduleSnoozeNotification(Gateway, snoozeTime,
                                                         alarmId).g)
    /\ UNCHANGED <<now, platformVars, serviceVars, firing, tasks, alarms, notification, activity, jsRunning,
                   ringScreen, userVars>>

\* RootLayout's effect: alarmEventService.initialize() subscribes the listener.
AppStart ==
    /\ ~jsRunning
    /\ jsRunning' = TRUE
    /\ last' = Op("start", <<>>, last.op = "reboot")
    /\ UNCHANGED <<now, platformVars, serviceVars, firing, tasks, alarms, pending, nativeUiVars, expo,
                   nextExpo, ringScreen, userVars>>

\* The application process ends: the React context and its screens are gone.
AppStop ==
    /\ jsRunning
    /\ jsRunning' = FALSE
    /\ ringScreen' = {}
    /\ last' = Op("stop", <<>>, FALSE)
    /\ UNCHANGED <<now, platformVars, serviceVars, firing, tasks, alarms, pending, nativeUiVars, expo,
                   nextExpo, userVars>>

\* The device reboots: AlarmManager forgets every alarm, the processes, the
\* activity and the posted notification are gone.  AlarmBootReceiver.onReceive
\* gets BOOT_COMPLETED and logs; it arms nothing.
Reboot ==
    /\ pending' = {}
    /\ notification' = None /\ activity' = None /\ inbox' = <<>>
    /\ jsRunning' = FALSE
    /\ ringScreen' = {}
    /\ last' = Op("reboot", <<>>, pending # {})
    /\ UNCHANGED <<now, platformVars, serviceVars, firing, tasks, alarms, expo, nextExpo, userVars>>

\* An expo notification fires and one of RootLayout's listeners pushes the
\* ringing screen with the alarm id of the notification's data.
ExpoFire(n) ==
    /\ n \in DueExpo
    /\ expo' = IF n.trigger.type = "CALENDAR"
               THEN (expo \ {n}) \cup
                    {[n EXCEPT !.trigger.date = AddDay(n.trigger.date)]}
               ELSE expo \ {n}
    /\ ringScreen' = ringScreen \cup {n.alarmId}
    /\ jsRunning' = TRUE
    /\ firing' = [key |-> n.alarmId, snooze |-> n.isSnooze, screens |-> 1,
                  shown |-> jsRunning]
    /\ last' = Op("fire", n.alarmId, FALSE)
    /\ UNCHANGED <<now, platformVars, serviceVars, tasks, alarms, pending, nativeUiVars, nextExpo,
                   userVars>>

\* The user taps the notification that the handler presented while the
\* application was in the foreground: the response listener pushes the ringing
\* screen again, the received listener having pushed it already.
ExpoTap ==
    /\ firing.shown
    /\ jsRunning
    /\ ringScreen' = ringScreen \cup {firing.key}
    /\ firing' = [firing EXCEPT !.screens = @ + 1, !.shown = FALSE]
    /\ last' = Op("tap", firing.key, FALSE)
    /\ UNCHANGED <<now, platformVars, serviceVars, tasks, alarms, pending, nativeUiVars,
                   jsRunning, expo, nextExpo, userVars>>

\* alarm-ring.tsx handleDismiss.
RingDismiss(alarmId) ==
    /\ alarmId \in ringScreen
    /\ LET alarm == getAlarmById(alarms, alarmId)
       IN  alarms' = IF alarmId # <<>> /\ alarm # None /\ The(alarm).repeatDays = {}
                     THEN toggleAlarm(alarms, alarmId)
                     ELSE alarms
    /\ ringScreen' = ringScreen \ {alarmId}
    /\ last' = Op("ringDismiss", alarmId, WasEnabled(alarmId))
    /\ UNCHANGED <<now, platformVars, serviceVars, firing, tasks, pending, nativeUiVars, jsRunning, expo,
                   nextExpo, userVars>>

\* alarm-ring.tsx handleSnooze.
RingSnooze(alarmId) ==
    /\ alarmId \in ringScreen
    /\ nextExpo < MaxExpo
    /\ SetGateway(scheduleSnoozeNotification(Gateway,
                      now + SnoozeMinutes * TicksPerMinute, alarmId).g)
    /\ ringScreen' = ringScreen \ {alarmId}
    /\ last' = Op("ringSnooze", alarmId, FALSE)
    /\ UNCHANGED <<now, platformVars, serviceVars, firing, tasks, alarms, nativeUiVars, jsRunning, userVars>>

\* ------------------------------------------- the coordinator (hooks/useAlarms)
\* The inputs of the editor: a time of day on today's date, and repeat days.
EditorTimes == {SetHours(now, m) + s : m \in 0..(MinutesPerDay - 1),
                                      s \in 0..(TicksPerMinute - 1)}
RepeatChoices == {{}, {"Fri", "Sun"}}

\* create: insert with enabled = true and no handle, arm, store the handle.
Create(id, time, repeatDays) ==
    /\ jsRunning
    /\ id \notin DOMAIN alarms
    /\ nextExpo < MaxExpo
    /\ edits < MaxEdits
    /\ edits' = edits + 1
    /\ LET alarm == [time |-> time, enabled |-> TRUE, repeatDays |-> repeatDays,
                     notificationId |-> None]
           r == scheduleAlarmNotification(Gateway, id, alarm)
       IN  /\ alarms' = updateAlarm(addAlarm(alarms, id, alarm), id,
                                    [alarm EXCEPT !.notificationId = r.handle])
           /\ SetGateway(r.g)
    /\ last' = Op("create", id, FALSE)
    /\ UNCHANGED <<now, platformVars, serviceVars, firing, tasks, nativeUiVars, jsRunning, ringScreen, calcVars>>

\* toggle: flip enabled; arm and store the handle, or disarm and clear it.
Toggle(id) ==
    /\ jsRunning
    /\ id \in DOMAIN alarms
    /\ nextExpo < MaxExpo
    /\ edits < MaxEdits
    /\ edits' = edits + 1
    /\ LET tbl == toggleAlarm(alarms, id)
           alarm == The(getAlarmById(tbl, id))
           r == scheduleAlarmNotification(Gateway, id, alarm)
       IN  IF alarm.enabled
           THEN /\ alarms' = updateAlarm(tbl, id,
                                         [alarm EXCEPT !.notificationId = r.handle])
                /\ SetGateway(r.g)
           ELSE /\ alarms' = updateAlarm(tbl, id,
                                         [alarm EXCEPT !.notificationId = None])
                /\ SetGateway(cancelAlarmNotifications(Gateway, alarm))
    /\ last' = Op("toggle", id, FALSE)
    /\ UNCHANGED <<now, platformVars, serviceVars, firing, tasks, nativeUiVars, jsRunning, ringScreen, calcVars>>

\* update: store the edited fields; an enabled alarm is disarmed and re-armed.
Update(id, time, repeatDays) ==
    /\ jsRunning
    /\ id \in DOMAIN alarms
    /\ nextExpo < MaxExpo
    /\ edits < MaxEdits
    /\ edits' = edits + 1
    /\ LET alarm == [The(getAlarmById(alarms, id)) EXCEPT
                        !.time = time, !.repeatDays = repeatDays]
           r == scheduleAlarmNotification(Gateway, id, alarm)
       IN  /\ <<alarm.time, alarm.repeatDays>> #
                  <<alarms[id].time, alarms[id].repeatDays>>
           /\ IF alarm.enabled
              THEN /\ alarms' = updateAlarm(alarms, id,
                                     [alarm EXCEPT !.notificationId = r.handle])
                   /\ SetGateway(r.g)
              ELSE /\ alarms' = updateAlarm(alarms, id, alarm)
                   /\ UNCHANGED <<pending, expo, nextExpo>>
    /\ last' = Op("update", id, FALSE)
    /\ UNCHANGED <<now, platformVars, serviceVars, firing, tasks, nativeUiVars, jsRunning, ringScreen, calcVars>>

\* delete: disarm, then delete the row.
Delete(id) ==
    /\ jsRunning
    /\ id \in DOMAIN alarms
    /\ edits < MaxEdits
    /\ edits' = edits + 1
    /\ SetGateway(cancelAlarmNotifications(Gateway, The(getAlarmById(alarms, id))))
    /\ alarms' = deleteAlarm(alarms, id)
    /\ last' = Op("delete", id, FALSE)
    /\ UNCHANGED <<now, platformVars, serviceVars, firing, tasks, nativeUiVars, jsRunning, ringScreen, calcVars>>

\* ------------------------------------------------------------ audioService.ts
\* audio is the module state of audioService.ts and the players of expo-av:
\*   soundObject  the module variable soundObject (None for null)
\*   isPlaying    the module variable isPlaying
\*   live         the sounds created and not unloaded
\*   sounding     the live sounds that are playing (created with shouldPlay
\*                and isLooping, until stopAsync or unloadAsync)
\*   timers       the setTimeout(vibrate, 1000) callbacks waiting to run
\*   nextSound    the next sound Audio.Sound.createAsync makes
\*   calls        the calls of playAlarmSound and stopAlarmSound, in order of
\*                start: kind "play" or "stop", pc the await the call is
\*                suspended at, "done" once returned
NoAudio ==
    [soundObject |-> None, isPlaying |-> FALSE, live |-> {}, sounding |-> {},
     timers |-> 0, nextSound |-> 0, calls |-> <<>>]

\* stopAlarmSound() up to its first await: [a, pc].  With a sound object it
\* calls soundObject.stopAsync(), which rejects on a sound that is not loaded;
\* without one it sets isPlaying = false and returns.
stopEnter(a) ==
    IF a.soundObject # None
    THEN LET s == The(a.soundObject)
         IN  IF s \in a.live
             THEN [a |-> [a EXCEPT !.sounding = @ \ {s}], pc |-> "stopAsync"]
             ELSE [a |-> a, pc |-> "rejected"]
    ELSE [a |-> [a EXCEPT !.isPlaying = FALSE], pc |-> "return"]

\* stopAlarmSound() from the await pc to the next one: [a, pc].  After
\* stopAsync it reads soundObject again for unloadAsync (a TypeError on null,
\* caught); after unloadAsync it sets soundObject = null and isPlaying = false;
\* the catch block only logs.
stopResume(a, pc) ==
    IF pc = "stopAsync"
    THEN IF a.soundObject = None
         THEN [a |-> a, pc |-> "return"]
         ELSE LET s == The(a.soundObject)
              IN  [a |-> [a EXCEPT !.live = @ \ {s}, !.sounding = @ \ {s}],
                   pc |-> "unloadAsync"]
    ELSE IF pc = "unloadAsync"
    THEN [a |-> [a EXCEPT !.soundObject = None, !.isPlaying = FALSE],
          pc |-> "return"]
    ELSE [a |-> a, pc |-> "return"]

\* startVibrationPattern(): vibrate() runs once and, while isPlaying, leaves a
\* setTimeout(vibrate, 1000) behind.
startVibrationPattern(a) ==
    IF a.isPlaying THEN [a EXCEPT !.timers = @ + 1] ELSE a

\* playAlarmSound() after Audio.Sound.createAsync has settled: with the sound
\* (created playing and looping) or with the load error.
playLoaded(a, loaded) ==
    IF loaded
    THEN startVibrationPattern(
             [a EXCEPT !.soundObject = Some(a.nextSound),
                       !.isPlaying = TRUE,
                       !.live = @ \cup {a.nextSound},
                       !.sounding = @ \cup {a.nextSound},
                       !.nextSound = @ + 1])
    ELSE startVibrationPattern([a EXCEPT !.isPlaying = TRUE])

audioFrame == <<now, platformVars, alarms, pending, nativeUiVars, jsRunning, expo,
                nextExpo, ringScreen, userVars, last, firing, tasks, emitter>>

AudioCall(kind, pc) == [kind |-> kind, pc |-> pc]

\* audioService.stopAlarmSound() is called: by the ringing screen's dismiss
\* and snooze handlers and by the cleanup of its effect.
StartStop ==
    /\ Len(audio.calls) < MaxCalls
    /\ LET r == stopEnter(audio)
       IN  audio' = [r.a EXCEPT !.calls =
                        Append(@, AudioCall("stop", IF r.pc = "return" THEN "done"
                                                    ELSE r.pc))]
    /\ UNCHANGED audioFrame

\* A suspended stopAlarmSound() goes on to its next await or returns.
StopStep(i) ==
    /\ audio.calls[i].kind = "stop"
    /\ audio.calls[i].pc # "done"
    /\ LET r == stopResume(audio, audio.calls[i].pc)
       IN  audio' = [r.a EXCEPT !.calls[i].pc = IF r.pc = "return" THEN "done"
                                                ELSE r.pc]
    /\ UNCHANGED audioFrame

\* audioService.playAlarmSound() is called by the effect of the ringing
\* screen: it runs stopAlarmSound() up to its first await.
StartPlay ==
    /\ Len(audio.calls) < MaxCalls
    /\ LET r == stopEnter(audio)
       IN  audio' = [r.a EXCEPT !.calls =
                        Append(@, AudioCall("play", IF r.pc = "return"
                                                    THEN "stopAlarmSound"
                                                    ELSE r.pc))]
    /\ UNCHANGED audioFrame

\* A suspended playAlarmSound() goes on to its next await or returns: through
\* stopAlarmSound(), then initializeAudio() (which catches its own errors),
\* then Audio.Sound.createAsync, which loads the sound or fails.
PlayStep(i) ==
    /\ audio.calls[i].kind = "play"
    /\ audio.calls[i].pc # "done"
    /\ LET pc == audio.calls[i].pc
       IN  IF pc \in {"stopAsync", "rejected", "unloadAsync"}
           THEN LET r == stopResume(audio, pc)
                IN  audio' = [r.a EXCEPT !.calls[i].pc =
                                 IF r.pc = "return" THEN "stopAlarmSound" ELSE r.pc]
           ELSE IF pc = "stopAlarmSound"
           THEN audio' = [audio EXCEPT !.calls[i].pc = "initializeAudio"]
           ELSE IF pc = "initializeAudio"
           THEN audio' = [audio EXCEPT !.calls[i].pc = "createAsync"]
           ELSE \E loaded \in BOOLEAN :
                    audio' = [playLoaded(audio, loaded) EXCEPT !.calls[i].pc = "done"]
    /\ UNCHANGED audioFrame

\* A setTimeout(vibrate, 1000) callback runs: while isPlaying it vibrates and
\* sets the next one, otherwise the loop ends.
VibrateTimer ==
    /\ audio.timers > 0
    /\ audio' = IF audio.isPlaying THEN audio
                ELSE [audio EXCEPT !.timers = @ - 1]
    /\ UNCHANGED audioFrame

\* ------------------------------------------------- AlarmEventService listener
\* emitter is the 'AlarmEvent' listeners registered with the native event
\* emitter, the service's field subscription (None for null) and the next
\* listener addListener makes.
NoEmitter == [listeners |-> {}, subscription |-> None, nextListener |-> 0]

\* initialize(): nothing off Android or without the native module; otherwise
\* addListener('AlarmEvent', ..) and the result stored in this.subscription.
initialize(e) ==
    IF ~nativeAvailable THEN e
    ELSE [e EXCEPT !.listeners = @ \cup {e.nextListener},
                   !.subscription = Some(e.nextListener),
                   !.nextListener = @ + 1]

\* cleanup(): this.subscription.remove() if there is one, then null.
cleanup(e) ==
    IF e.subscription # None
    THEN [e EXCEPT !.listeners = @ \ e.subscription, !.subscription = None]
    ELSE e

emitterFrame == <<now, platformVars, alarms, pending, nativeUiVars, jsRunning, expo,
                  nextExpo, ringScreen, userVars, firing, tasks, audio>>

Initialize ==
    /\ emitter.nextListener < MaxInits
    /\ emitter' = initialize(emitter)
    /\ last' = Op("initialize", <<>>, emitter.subscription # None)
    /\ UNCHANGED emitterFrame

Cleanup ==
    /\ emitter' = cleanup(emitter)
    /\ last' = Op("cleanup", <<>>, emitter.subscription # None)
    /\ UNCHANGED emitterFrame

\* AlarmEventModule.sendEvent: the emitter calls every 'AlarmEvent' listener,
\* and each calls handleAlarmEvent.  last.result is the number of calls.
EmitAlarmEvent(eventType, alarmId) ==
    /\ last' = [Op("emit", alarmId, eventType = "ALARM_SNOOZED")
                   EXCEPT !.result = Some(Cardinality(emitter.listeners))]
    /\ UNCHANGED <<emitter, emitterFrame>>

\* ------------------------------------------------------------ specification
EmptyTable == [k \in {} |-> None]

\* Nothing has fired yet.
NoFiring == [key |-> <<>>, snooze |-> FALSE, screens |-> 0, shown |-> FALSE]

CalcIdle == calcIn = None /\ calcOut = None

Init ==
    /\ now = 0
    /\ nativeAvailable \in BOOLEAN
    /\ notifGranted \in BOOLEAN
    /\ exactAllowed \in BOOLEAN
    /\ (~nativeAvailable => exactAllowed)
    /\ alarms = EmptyTable
    /\ pending = {}
    /\ notification = None
    /\ activity = None
    /\ inbox = <<>>
    /\ jsRunning = TRUE
    /\ expo = {}
    /\ nextExpo = 0
    /\ ringScreen = {}
    /\ edits = 0
    /\ last = Op("init", <<>>, FALSE)
    /\ CalcIdle
    /\ firing = NoFiring
    /\ tasks = <<>>
    /\ audio = NoAudio
    /\ emitter = NoEmitter

Next ==
    \/ Tick
    \/ \E e \in pending : AlarmReceiverOnReceive(e)
    \/ TapNotification
    \/ ActivityDismiss
    \/ ActivitySnooze
    \/ DropEvent
    \/ HandleDismiss
    \/ HandleSnooze
    \/ AppStart
    \/ AppStop
    \/ \E n \in expo : ExpoFire(n)
    \/ ExpoTap
    \/ \E id \in ringScreen : RingDismiss(id)
    \/ \E id \in ringScreen : RingSnooze(id)
    \/ \E id \in Ids, t \in EditorTimes, r \in RepeatChoices : Create(id, t, r)
    \/ \E id \in Ids : Toggle(id)
    \/ \E id \in Ids, t \in EditorTimes, r \in RepeatChoices : Update(id, t, r)
    \/ \E id \in Ids : Delete(id)

Spec == Init /\ [][Next]_vars

\* ------------------------------------------- firing, ringing and answering
\* The specification RingSpec is the lifecycle of an alarm once created: the
\* timers fire, the screens ring, the user answers; the record is not edited.
NextRing ==
    \/ Tick
    \/ \E e \in pending : AlarmReceiverOnReceive(e)
    \/ TapNotification
    \/ ActivityDismiss
    \/ ActivitySnooze
    \/ DropEvent
    \/ HandleDismiss
    \/ HandleSnooze
    \/ AppStart
    \/ AppStop
    \/ \E n \in expo : ExpoFire(n)
    \/ ExpoTap
    \/ \E id \in ringScreen : RingDismiss(id)
    \/ \E id \in ringScreen : RingSnooze(id)
    \/ \E id \in Ids, t \in EditorTimes, r \in RepeatChoices : Create(id, t, r)

RingSpec == Init /\ [][NextRing]_vars


\* ------------------------------------------- the arm requests, on their own
\* The specification ArmSpec issues the service's arm and disarm requests
\* directly, with any alarm value a caller can pass, on the platform that has
\* the exact-timer gateway.
ArmTimes == {t \in 0..(now + TicksPerDay) : t % TicksPerMinute = 0}
ArmHandles(id) == {None, Some(NativePrefix \o id)}

ArmAlarm(id, time, repeatDays, handle) ==
    /\ LET alarm == [time |-> time, enabled |-> TRUE, repeatDays |-> repeatDays,
                     notificationId |-> handle]
           r == scheduleAlarmNotification(Gateway, id, alarm)
       IN  /\ SetGateway(r.g)
           /\ last' = [Op(IF r.handle # None THEN "arm" ELSE "armFailed", id,
                          WasPending(id)) EXCEPT !.result = r.handle]
    /\ UNCHANGED <<now, platformVars, serviceVars, firing, tasks, alarms, nativeUiVars, jsRunning, ringScreen,
                   userVars>>

ArmSnooze(alarmId) ==
    /\ LET r == scheduleSnoozeNotification(Gateway,
                    now + SnoozeMinutes * TicksPerMinute, alarmId)
       IN  /\ SetGateway(r.g)
           /\ last' = [Op(IF r.handle # None THEN "arm" ELSE "armFailed",
                          SnoozePrefix \o alarmId, WasPending(SnoozePrefix \o alarmId))
                           EXCEPT !.result = r.handle]
    /\ UNCHANGED <<now, platformVars, serviceVars, firing, tasks, alarms, nativeUiVars, jsRunning, ringScreen,
                   userVars>>

Disarm(notificationId) ==
    /\ SetGateway(cancelNotification(Gateway, notificationId))
    /\ last' = Op("disarm", Replace(notificationId, NativePrefix), FALSE)
    /\ UNCHANGED <<now, platformVars, serviceVars, firing, tasks, alarms, nativeUiVars, jsRunning, ringScreen,
                   userVars>>

DisarmAll ==
    /\ SetGateway(cancelAllNotifications(Gateway))
    /\ last' = Op("disarmAll", <<>>, pending # {})
    /\ UNCHANGED <<now, platformVars, serviceVars, firing, tasks, alarms, nativeUiVars, jsRunning, ringScreen,
                   userVars>>

\* cancelNotification called with the handle the last arming call returned.
DisarmReturned ==
    /\ last.op = "arm"
    /\ last.result # None
    /\ SetGateway(cancelNotification(Gateway, The(last.result)))
    /\ last' = Op("disarmReturned", last.key, WasPending(last.key))
    /\ UNCHANGED <<now, platformVars, serviceVars, firing, tasks, alarms, nativeUiVars, jsRunning, ringScreen,
                   userVars>>

InitArm == Init /\ nativeAvailable

NextArm ==
    \/ Tick
    \/ \E e \in pending : AlarmReceiverOnReceive(e)
    \/ \E id \in Ids, t \in ArmTimes, r \in RepeatChoices :
           \E h \in ArmHandles(id) : ArmAlarm(id, t, r, h)
    \/ \E id \in Ids : ArmSnooze(id)
    \/ \E id \in Ids : Disarm(NativePrefix \o id)
    \/ \E id \in Ids : Disarm(NativePrefix \o SnoozePrefix \o id)
    \/ DisarmAll
    \/ DisarmReturned

ArmSpec == InitArm /\ [][NextArm]_vars

\* ------------------------------------------------- toggles, on their own
\* The specification ToggleSpec starts from a store that holds one disabled
\* record, nothing armed for it, and toggles it.  The record is one the
\* program leaves behind: created by the editor and toggled off (no handle),
\* or one-time and dismissed on the native path, where handleDismiss toggles
\* the row and leaves the handle in it.
DisabledRows(id) ==
    {row \in [time : EditorTimes, enabled : {0}, repeatDays : RepeatChoices,
              notificationId : ArmHandles(id)] :
        row.notificationId # None =>
            /\ nativeAvailable /\ notifGranted /\ exactAllowed
            /\ row.repeatDays = {}}

InitToggle ==
    /\ now = 0
    /\ nativeAvailable \in BOOLEAN
    /\ notifGranted \in BOOLEAN
    /\ exactAllowed \in BOOLEAN
    /\ (~nativeAvailable => exactAllowed)
    /\ alarms \in UNION {[{id} -> DisabledRows(id)] : id \in Ids}
    /\ pending = {} /\ notification = None /\ activity = None /\ inbox = <<>>
    /\ jsRunning = TRUE
    /\ expo = {} /\ nextExpo = 0 /\ ringScreen = {}
    /\ edits = 0
    /\ last = Op("init", <<>>, FALSE)
    /\ CalcIdle
    /\ firing = NoFiring
    /\ tasks = <<>>
    /\ audio = NoAudio
    /\ emitter = NoEmitter

NextToggle == \E id \in Ids : Toggle(id)

ToggleSpec == InitToggle /\ [][NextToggle]_vars

\* ------------------------------------------------ the store, on its own
\* The specification StoreSpec calls the functions of alarmStorage directly,
\* one call at a time, with any alarm a caller can pass, and lets the database
\* fail at any of its calls.  last.result is what the call returned or threw;
\* last.pre tells whether the id was stored before the call, which database
\* call failed and, for addAlarm and updateAlarm, the alarm passed.
StoreIds == {<<49>>, <<50>>}
StoreAlarms ==
    [time : 0..MaxStoreTime, enabled : BOOLEAN, repeatDays : RepeatChoices,
     notificationId : {None}]

Thrown == [kind |-> "error", value |-> None]
Returned(kind, value) == [kind |-> kind, value |-> value]

\* SELECT * FROM alarms ORDER BY time ASC, mapped with rowToAlarm: the lists
\* the query can return, rows of equal time in either order.
SelectAll(tbl) ==
    LET n == Cardinality(DOMAIN tbl)
    IN  {[i \in 1..n |-> <<order[i], rowToAlarm(tbl[order[i]])>>] :
            order \in {o \in [1..n -> DOMAIN tbl] :
                          /\ \A i, j \in 1..n : i # j => o[i] # o[j]
                          /\ \A i, j \in 1..n :
                                i < j => tbl[o[i]].time <= tbl[o[j]].time}}

\* The rows with enabled = e.
WhereEnabled(tbl, e) ==
    [k \in {x \in DOMAIN tbl : tbl[x].enabled = e} |-> tbl[k]]

\* try { ... return value } catch { console.error(...); return empty } of the
\* read functions.
caughtRethrown(fault, values, empty) ==
    IF fault = "none" THEN values ELSE {Thrown}

caught(fault, values, empty) ==
    IF fault = "none" THEN values ELSE {empty}

\* getAlarms(): what it can return.
getAlarms(tbl, fault) ==
    caught(fault, {Returned("list", l) : l \in SelectAll(tbl)},
           Returned("list", <<>>))

\* The id column is PRIMARY KEY: an INSERT of an id that is stored fails.
insertNeverFails(tbl, id) == FALSE

insertFails(tbl, id) == id \in DOMAIN tbl

StoreOp(op, key, fault, result) ==
    [Op(op, key, [present |-> key \in DOMAIN alarms, fault |-> fault,
                  arg |-> None])
        EXCEPT !.result = result]

storeFrame == <<now, platformVars, serviceVars, firing, tasks, pending, nativeUiVars,
                jsRunning, expo, nextExpo, ringScreen, userVars>>

\* The database calls of a mutating function that can fail: getDatabase
\* ("open"), runAsync ("write"), and the query of the getAlarms() it returns
\* ("read"); toggleAlarm has the query of its getAlarmById as well ("get").
WriteFaults == {"none", "open", "write", "read"}
ToggleFaults == WriteFaults \cup {"get"}
ReadFaults == {"none", "read"}

\* What a mutating function returns once its write is done:
\* return await this.getAlarms().
Refreshed(tbl, fault) == getAlarms(tbl, IF fault = "read" THEN "read" ELSE "none")

StoreAdd(id, alarm, fault) ==
    /\ LET fails == fault \in {"open", "write"} \/ insertFails(alarms, id)
           tbl == IF fails THEN alarms ELSE addAlarm(alarms, id, alarm)
       IN  /\ alarms' = tbl
           /\ \E r \in (IF fails THEN {Thrown} ELSE Refreshed(tbl, fault)) :
                 last' = [StoreOp("addAlarm", id, fault, r)
                             EXCEPT !.pre.arg = Some(alarm)]
    /\ UNCHANGED storeFrame

StoreUpdate(id, alarm, fault) ==
    /\ LET fails == fault \in {"open", "write"}
           tbl == IF fails THEN alarms ELSE updateAlarm(alarms, id, alarm)
       IN  /\ alarms' = tbl
           /\ \E r \in (IF fails THEN {Thrown} ELSE Refreshed(tbl, fault)) :
                 last' = [StoreOp("updateAlarm", id, fault, r)
                             EXCEPT !.pre.arg = Some(alarm)]
    /\ UNCHANGED storeFrame

StoreDelete(id, fault) ==
    /\ LET fails == fault \in {"open", "write"}
           tbl == IF fails THEN alarms ELSE deleteAlarm(alarms, id)
       IN  /\ alarms' = tbl
           /\ \E r \in (IF fails THEN {Thrown} ELSE Refreshed(tbl, fault)) :
                 last' = StoreOp("deleteAlarm", id, fault, r)
    /\ UNCHANGED storeFrame

\* toggleAlarm throws 'not found' when its getAlarmById returns null, which it
\* does for an id that is not stored and when its query fails.
StoreToggle(id, fault) ==
    /\ LET fails == \/ fault \in {"open", "write", "get"}
                    \/ getAlarmById(alarms, id) = None
           tbl == IF fails THEN alarms ELSE toggleAlarm(alarms, id)
       IN  /\ alarms' = tbl
           /\ \E r \in (IF fails THEN {Thrown} ELSE Refreshed(tbl, fault)) :
                 last' = StoreOp("toggleAlarm", id, fault, r)
    /\ UNCHANGED storeFrame

StoreGetAlarms(fault) ==
    /\ \E r \in getAlarms(alarms, fault) :
          last' = StoreOp("getAlarms", <<>>, fault, r)
    /\ UNCHANGED <<alarms, storeFrame>>

StoreGetAlarmById(id, fault) ==
    /\ \E r \in caught(fault, {Returned("alarm", getAlarmById(alarms, id))},
                       Returned("alarm", None)) :
          last' = StoreOp("getAlarmById", id, fault, r)
    /\ UNCHANGED <<alarms, storeFrame>>

StoreGetAlarmsByEnabledState(enabled, fault) ==
    /\ \E r \in caught(fault,
                       {Returned("list", l) :
                           l \in SelectAll(WhereEnabled(alarms,
                                               IF enabled THEN 1 ELSE 0))},
                       Returned("list", <<>>)) :
          last' = StoreOp("getAlarmsByEnabledState", <<>>, fault, r)
    /\ UNCHANGED <<alarms, storeFrame>>

StoreGetAlarmsCount(fault) ==
    /\ \E r \in caught(fault, {Returned("count", Cardinality(DOMAIN alarms))},
                       Returned("count", 0)) :
          last' = StoreOp("getAlarmsCount", <<>>, fault, r)
    /\ UNCHANGED <<alarms, storeFrame>>

InitStore ==
    /\ now = 0
    /\ nativeAvailable = TRUE /\ notifGranted = TRUE /\ exactAllowed = TRUE
    /\ alarms = EmptyTable
    /\ pending = {} /\ notification = None /\ activity = None /\ inbox = <<>>
    /\ jsRunning = TRUE
    /\ expo = {} /\ nextExpo = 0 /\ ringScreen = {}
    /\ edits = 0
    /\ last = Op("init", <<>>, FALSE)
    /\ CalcIdle
    /\ firing = NoFiring
    /\ tasks = <<>>
    /\ audio = NoAudio
    /\ emitter = NoEmitter

NextStore ==
    \/ \E id \in StoreIds, a \in StoreAlarms, f \in WriteFaults : StoreAdd(id, a, f)
    \/ \E id \in StoreIds, a \in StoreAlarms, f \in WriteFaults : StoreUpdate(id, a, f)
    \/ \E id \in StoreIds, f \in WriteFaults : StoreDelete(id, f)
    \/ \E id \in StoreIds, f \in ToggleFaults : StoreToggle(id, f)
    \/ \E f \in ReadFaults : StoreGetAlarms(f)
    \/ \E id \in StoreIds, f \in ReadFaults : StoreGetAlarmById(id, f)
    \/ \E e \in BOOLEAN, f \in ReadFaults : StoreGetAlarmsByEnabledState(e, f)
    \/ \E f \in ReadFaults : StoreGetAlarmsCount(f)

StoreSpec == InitStore /\ [][NextStore]_vars

\* ------------------------------------------- handlers, one await at a time
\* The specification AsyncSpec runs the asynchronous functions of the event
\* service and of the store step by step: a handler gives the thread away at
\* each await, and another handler, started by a later event or by the user,
\* runs in between.  tasks holds them in the order they started.  A task:
\*   kind    "dismiss", "snooze" (AlarmEventService), "toggle", "update"
\*           (alarmStorage.toggleAlarm, alarmStorage.updateAlarm)
\*   pc      the await it is suspended at, "done" once returned
\*   seen    what the handler's own getAlarmById returned
\*   got     what toggleAlarm's getAlarmById returned
\*   arg     the alarm object passed to updateAlarm
\*   base    the row of the id when the task started
\*   overlap another task on the id was unfinished when this one started
Task(kind, id, pc, arg) ==
    [kind |-> kind, id |-> id, pc |-> pc, seen |-> None, got |-> None,
     arg |-> arg,
     base |-> IF id \in DOMAIN alarms THEN Some(alarms[id]) ELSE None,
     overlap |-> \E i \in DOMAIN tasks :
                     tasks[i].id = id /\ tasks[i].pc # "done"]

taskFrame == <<now, platformVars, serviceVars, firing, nativeUiVars, jsRunning, ringScreen,
               userVars>>

\* The listener of AlarmEventService.initialize is called with an event and
\* calls handleAlarmEvent, which runs up to its first await.
StartSignal(eventType, alarmId) ==
    /\ nativeAvailable /\ jsRunning
    /\ Len(tasks) < MaxTasks
    /\ tasks' = Append(tasks, Task(IF eventType = "ALARM_DISMISSED"
                                   THEN "dismiss" ELSE "snooze",
                                   alarmId, "get", None))
    /\ last' = Op("signal", alarmId, FALSE)
    /\ UNCHANGED <<taskFrame, alarms, pending, expo, nextExpo>>

\* alarmStorage.toggleAlarm(id) is called.
StartToggle(id) ==
    /\ jsRunning /\ id \in DOMAIN alarms
    /\ Len(tasks) < MaxTasks
    /\ tasks' = Append(tasks, Task("toggle", id, "toggleGet", None))
    /\ last' = Op("call", id, FALSE)
    /\ UNCHANGED <<taskFrame, alarms, pending, expo, nextExpo>>

\* The editor's handleSave: updatedAlarm = {...existingAlarm, time, repeatDays}
\* is built from the record on screen and passed to alarmStorage.updateAlarm.
StartUpdate(id, time, repeatDays) ==
    /\ jsRunning /\ id \in DOMAIN alarms
    /\ Len(tasks) < MaxTasks
    /\ tasks' = Append(tasks,
                  Task("update", id, "write",
                       Some([rowToAlarm(alarms[id]) EXCEPT
                                !.time = time, !.repeatDays = repeatDays])))
    /\ last' = Op("call", id, FALSE)
    /\ UNCHANGED <<taskFrame, alarms, pending, expo, nextExpo>>

\* handleDismiss / handleSnooze: const alarm = await getAlarmById(alarmId).
TaskGet(i) ==
    /\ tasks[i].pc = "get"
    /\ LET a == getAlarmById(alarms, tasks[i].id)
       IN  tasks' = [tasks EXCEPT
                       ![i].seen = a,
                       ![i].pc = IF a = None THEN "done"
                                 ELSE IF tasks[i].kind = "snooze" THEN "snoozeArm"
                                 ELSE IF The(a).repeatDays = {} THEN "toggleGet"
                                 ELSE "cancel"]
    /\ last' = Op("step", tasks[i].id, FALSE)
    /\ UNCHANGED <<taskFrame, alarms, pending, expo, nextExpo>>

\* toggleAlarm: const alarm = await this.getAlarmById(id); throws on null.
TaskToggleGet(i) ==
    /\ tasks[i].pc = "toggleGet"
    /\ LET a == getAlarmById(alarms, tasks[i].id)
       IN  tasks' = [tasks EXCEPT ![i].got = a,
                                  ![i].pc = IF a = None THEN "done" ELSE "toggleRun"]
    /\ last' = Op("step", tasks[i].id, FALSE)
    /\ UNCHANGED <<taskFrame, alarms, pending, expo, nextExpo>>

\* toggleAlarm: UPDATE alarms SET enabled = newEnabledState WHERE id.
TaskToggleRun(i) ==
    /\ tasks[i].pc = "toggleRun"
    /\ alarms' = IF tasks[i].id \in DOMAIN alarms
                 THEN [alarms EXCEPT ![tasks[i].id].enabled =
                          IF The(tasks[i].got).enabled THEN 0 ELSE 1]
                 ELSE alarms
    /\ tasks' = [tasks EXCEPT ![i].pc = "done"]
    /\ last' = Op("step", tasks[i].id, FALSE)
    /\ UNCHANGED <<taskFrame, pending, expo, nextExpo>>

\* updateAlarm: UPDATE alarms SET every column from the object passed.
TaskWrite(i) ==
    /\ tasks[i].pc = "write"
    /\ alarms' = updateAlarm(alarms, tasks[i].id, The(tasks[i].arg))
    /\ tasks' = [tasks EXCEPT ![i].pc = "done"]
    /\ last' = Op("step", tasks[i].id, FALSE)
    /\ UNCHANGED <<taskFrame, pending, expo, nextExpo>>

\* The two awaits of scheduleAlarmNotification(alarm) that touch the gateway,
\* in program order: cancelNotification(alarm.notificationId), then the
\* scheduling call.
rearmStepSwapped(pc, g, id, alarm) ==
    IF pc = "schedule"
    THEN [handle |-> None, g |-> cancelAlarmNotifications(g, alarm)]
    ELSE scheduleAlarmNotification(g, id, [alarm EXCEPT !.notificationId = None])

rearmStep(pc, g, id, alarm) ==
    IF pc = "cancel"
    THEN [handle |-> None, g |-> cancelAlarmNotifications(g, alarm)]
    ELSE scheduleAlarmNotification(g, id, [alarm EXCEPT !.notificationId = None])

\* handleDismiss of a repeating alarm: scheduleAlarmNotification(alarm) up to
\* the await of cancelNotification; without the permission it returns null.
TaskCancel(i) ==
    /\ tasks[i].pc = "cancel"
    /\ IF notifGranted
       THEN /\ SetGateway(rearmStep("cancel", Gateway, tasks[i].id,
                                    The(tasks[i].seen)).g)
            /\ tasks' = [tasks EXCEPT ![i].pc = "schedule"]
       ELSE /\ tasks' = [tasks EXCEPT ![i].pc = "done"]
            /\ UNCHANGED <<pending, expo, nextExpo>>
    /\ last' = Op("step", tasks[i].id, FALSE)
    /\ UNCHANGED <<taskFrame, alarms>>

\* ... and from there to its return.
TaskSchedule(i) ==
    /\ tasks[i].pc = "schedule"
    /\ nextExpo < MaxExpo
    /\ SetGateway(rearmStep("schedule", Gateway, tasks[i].id,
                            The(tasks[i].seen)).g)
    /\ tasks' = [tasks EXCEPT ![i].pc = "done"]
    /\ last' = Op("step", tasks[i].id, FALSE)
    /\ UNCHANGED <<taskFrame, alarms>>

\* handleSnooze: scheduleSnoozeNotification for Date.now() + 5 minutes.
TaskSnoozeArm(i) ==
    /\ tasks[i].pc = "snoozeArm"
    /\ nextExpo < MaxExpo
    /\ SetGateway(scheduleSnoozeNotification(Gateway,
                      now + SnoozeMinutes * TicksPerMinute, tasks[i].id).g)
    /\ tasks' = [tasks EXCEPT ![i].pc = "done"]
    /\ last' = Op("step", tasks[i].id, FALSE)
    /\ UNCHANGED <<taskFrame, alarms>>

SignalTypes == {"ALARM_DISMISSED", "ALARM_SNOOZED"}

NextAsync ==
    \/ \E id \in Ids, t \in EditorTimes, r \in RepeatChoices : Create(id, t, r)
    \/ \E ty \in SignalTypes, id \in Ids : StartSignal(ty, id)
    \/ \E id \in Ids : StartToggle(id)
    \/ \E id \in Ids, t \in EditorTimes, r \in RepeatChoices : StartUpdate(id, t, r)
    \/ \E i \in DOMAIN tasks : TaskGet(i)
    \/ \E i \in DOMAIN tasks : TaskToggleGet(i)
    \/ \E i \in DOMAIN tasks : TaskToggleRun(i)
    \/ \E i \in DOMAIN tasks : TaskWrite(i)
    \/ \E i \in DOMAIN tasks : TaskCancel(i)
    \/ \E i \in DOMAIN tasks : TaskSchedule(i)
    \/ \E i \in DOMAIN tasks : TaskSnoozeArm(i)

AsyncSpec == Init /\ [][NextAsync]_vars

\* The specification RearmSpec keeps of it the handlers that reach the
\* gateways: the signals' handlers, with the toggles they compete with.
NextRearm ==
    \/ \E id \in Ids, t \in EditorTimes, r \in RepeatChoices : Create(id, t, r)
    \/ \E ty \in SignalTypes, id \in Ids : StartSignal(ty, id)
    \/ \E id \in Ids : StartToggle(id)
    \/ \E i \in DOMAIN tasks : TaskGet(i)
    \/ \E i \in DOMAIN tasks : TaskToggleGet(i)
    \/ \E i \in DOMAIN tasks : TaskToggleRun(i)
    \/ \E i \in DOMAIN tasks : TaskCancel(i)
    \/ \E i \in DOMAIN tasks : TaskSchedule(i)
    \/ \E i \in DOMAIN tasks : TaskSnoozeArm(i)

RearmSpec == Init /\ [][NextRearm]_vars

\* --------------------------------------------- the calculator, on its own
\* The specification CalcSpec draws a stored alarm time, repeat days and a
\* current instant, and applies the next-occurrence computation to them.
CalcInputs ==
    [alarmTime : 0..(CalcAlarmDays * TicksPerDay - 1),
     repeatDays : SUBSET RepeatDay,
     now : 0..(CalcDays * TicksPerDay - 1)]

\* getNextOccurrence on non-empty repeat days.
CalcRepeating ==
    /\ calcOut = None
    /\ The(calcIn).repeatDays # {}
    /\ calcOut' = Some(GetNextOccurrence(The(calcIn).alarmTime,
                         The(calcIn).repeatDays, The(calcIn).now, The(calcIn).now))
    /\ UNCHANGED <<now, platformVars, serviceVars, firing, tasks, alarms, pending, nativeUiVars, jsRunning,
                   expo, nextExpo, ringScreen, edits, last, calcIn>>

\* The one-time branch, of getNextOccurrence and of scheduleNativeAlarm alike.
CalcOneTime ==
    /\ calcOut = None
    /\ The(calcIn).repeatDays = {}
    /\ calcOut' = Some(TriggerDate(The(calcIn).alarmTime, {}, The(calcIn).now))
    /\ GetNextOccurrence(The(calcIn).alarmTime, {}, The(calcIn).now,
                         The(calcIn).now) = The(calcOut')
    /\ UNCHANGED <<now, platformVars, serviceVars, firing, tasks, alarms, pending, nativeUiVars, jsRunning,
                   expo, nextExpo, ringScreen, edits, last, calcIn>>

InitCalc ==
    /\ now = 0
    /\ nativeAvailable = TRUE /\ notifGranted = TRUE /\ exactAllowed = TRUE
    /\ alarms = EmptyTable
    /\ pending = {} /\ notification = None /\ activity = None /\ inbox = <<>>
    /\ jsRunning = TRUE
    /\ expo = {} /\ nextExpo = 0 /\ ringScreen = {}
    /\ edits = 0
    /\ last = Op("init", <<>>, FALSE)
    /\ calcIn \in {Some(i) : i \in CalcInputs}
    /\ calcOut = None
    /\ firing = NoFiring
    /\ tasks = <<>>
    /\ audio = NoAudio
    /\ emitter = NoEmitter

NextCalc == CalcRepeating \/ CalcOneTime

CalcSpec == InitCalc /\ [][NextCalc]_vars

\* ------------------------------------------------ the lifecycle, with fairness
\* The platform delivers what is due and what was sent, and the clock runs;
\* the user is free never to act.
Delivery ==
    \/ \E e \in pending : AlarmReceiverOnReceive(e)
    \/ \E n \in expo : ExpoFire(n)
    \/ DropEvent
    \/ HandleDismiss
    \/ HandleSnooze

InitFair == Init /\ notifGranted /\ exactAllowed

FairSpec == InitFair /\ [][Next]_vars /\ WF_vars(Tick) /\ WF_vars(Delivery)

\* The lifecycle on the exact-timer path with reboots: the device can reboot
\* at any instant and the application can be started after it.
InitBoot == Init /\ nativeAvailable /\ notifGranted /\ exactAllowed

NextBoot ==
    \/ Tick
    \/ \E e \in pending : AlarmReceiverOnReceive(e)
    \/ TapNotification
    \/ ActivityDismiss
    \/ ActivitySnooze
    \/ DropEvent
    \/ HandleDismiss
    \/ HandleSnooze
    \/ AppStart
    \/ AppStop
    \/ Reboot
    \/ \E id \in Ids, t \in EditorTimes, r \in RepeatChoices : Create(id, t, r)

BootSpec == InitBoot /\ [][NextBoot]_vars /\ WF_vars(Tick) /\ WF_vars(Delivery)


\* ------------------------------------------------------- calculator claims
CalcDone == calcIn # None /\ calcOut # None
CalcTime == The(calcIn).alarmTime
CalcRepeat == The(calcIn).repeatDays
CalcNow == The(calcIn).now
CalcResult == The(calcOut)

\* t is on a weekday of repeatDays, at the alarm's hour and minute (seconds
\* zero), and strictly later than the instant from.
Matches(t, alarmTime, repeatDays, from) ==
    /\ GetDay(t) \in {dayMap(d) : d \in repeatDays}
    /\ t = SetHours(t, GetMinuteOfDay(alarmTime))
    /\ t > from

\* C7: for non-empty repeatDays the instant getNextOccurrence returns is on a
\* weekday of repeatDays, at the alarm's hour and minute, strictly later than
\* now, and no earlier instant has these three properties.
C7_NextOccurrenceIsEarliestMatch ==
    (CalcDone /\ CalcRepeat # {}) =>
        /\ Matches(CalcResult, CalcTime, CalcRepeat, CalcNow)
        /\ \A t \in (CalcNow + 1)..(CalcResult - 1) :
               ~Matches(t, CalcTime, CalcRepeat, CalcNow)

\* C7's example: 07:00 with {Mon, Wed} at Tuesday 10:00 gives Wednesday 07:00
\* (minute 0 for 07:00, minute 1 for 10:00; day 5 is a Tuesday, day 6 a
\* Wednesday).
C7_Witness ==
    /\ CalcDone
    /\ CalcRepeat = {"Mon", "Wed"}
    /\ GetMinuteOfDay(CalcTime) = 0
    /\ GetDay(CalcNow) = 2 /\ GetMinuteOfDay(CalcNow) = 1
    /\ CalcResult = SetHours(AddDay(CalcNow), 0)
    /\ GetDay(CalcResult) = 3

\* The alarm's time of day on the calendar day of the instant t.
TimeOfDayOn(t, alarmTime) == DayOf(t) * TicksPerDay + (alarmTime % TicksPerDay)

\* C8: for empty repeatDays, whatever date the stored time carries, the trigger
\* instant is today at the alarm's time of day when now is strictly before that
\* time today, and otherwise tomorrow at that time of day.
C8_OneTimeTodayOrTomorrow ==
    (CalcDone /\ CalcRepeat = {}) =>
        CalcResult = IF CalcNow < TimeOfDayOn(CalcNow, CalcTime)
                     THEN TimeOfDayOn(CalcNow, CalcTime)
                     ELSE AddDay(TimeOfDayOn(CalcNow, CalcTime))

\* C9: the computed trigger instant is strictly later than now, for one-time
\* and repeating alarms alike.
C9_TriggerStrictlyFuture ==
    CalcDone => CalcResult > CalcNow


\* -------------------------------------------------------- lifecycle claims
\* The exact alarms pending under a timer key, and the expo notifications
\* scheduled for an alarm id (its own, not its snoozes).
TimersFor(key) == {e \in pending : e.alarmId = key}
ExpoFor(id) == {n \in expo : n.alarmId = id /\ ~n.isSnooze}
SnoozesFor(id) ==
    {e \in pending : e.alarmId = SnoozePrefix \o id}
        \cup {n \in expo : n.alarmId = id /\ n.isSnooze}

Dismissed(id) == last.op \in {"dismiss", "ringDismiss"} /\ last.key = id
OneTime(id) == id \in DOMAIN alarms /\ alarms[id].repeatDays = {}
Repeating(id) == id \in DOMAIN alarms /\ alarms[id].repeatDays # {}
Enabled(id) == id \in DOMAIN alarms /\ rowToAlarm(alarms[id]).enabled

\* C1: after a dismissal of a one-time alarm has been handled, on the native
\* path or on the ringing screen, the record has enabled = false, no handle
\* stored and no timer pending for its id.
C1_OneTimeDismissedIsDisarmed ==
    \A id \in Ids :
        (Dismissed(id) /\ OneTime(id)) =>
            /\ ~Enabled(id)
            /\ alarms[id].notificationId = None
            /\ TimersFor(id) = {} /\ ExpoFor(id) = {}

\* C2: after a dismissal of an enabled repeating alarm has been handled, on
\* either path, the record is enabled and a timer for its id is armed at the
\* instant the next-occurrence calculator gives.
C2_RepeatingDismissedIsRearmed ==
    \A id \in Ids :
        (Dismissed(id) /\ last.pre /\ Repeating(id)) =>
            LET next == GetNextOccurrence(alarms[id].time, alarms[id].repeatDays,
                                          now, now)
            IN  /\ Enabled(id)
                /\ \/ \E e \in TimersFor(id) : e.triggerTime = next
                   \/ \E n \in ExpoFor(id) : n.trigger.date = next

\* Nothing rings and nothing is in flight: no AlarmActivity, no alarm
\* notification posted, no ringing screen, no broadcast undelivered.
Quiet ==
    /\ activity = None /\ notification = None
    /\ ringScreen = {} /\ inbox = <<>>

\* C4: with no operation in flight, a record with enabled = false has no
\* timer pending for its id in the exact-timer gateway.
C4_DisabledHasNoTimer ==
    \A id \in Ids :
        (id \in DOMAIN alarms /\ ~Enabled(id) /\ inbox = <<>>) =>
            TimersFor(id) = {}

\* C5: on the platform that has the exact-timer gateway, with the
\* permissions granted, nothing ringing, nothing in flight and no snooze
\* pending, a record with enabled = true has exactly one timer pending for
\* its id, armed for the record's time of day and not before now.
C5_EnabledHasOneTimer ==
    \A id \in Ids :
        (/\ nativeAvailable /\ notifGranted /\ exactAllowed
         /\ Enabled(id) /\ Quiet /\ SnoozesFor(id) = {}) =>
            /\ Cardinality(TimersFor(id)) = 1
            /\ \A e \in TimersFor(id) :
                   /\ e.triggerTime >= now
                   /\ GetMinuteOfDay(e.triggerTime) = GetMinuteOfDay(alarms[id].time)
                   /\ Repeating(id) =>
                          GetDay(e.triggerTime) \in
                              {dayMap(d) : d \in alarms[id].repeatDays}

\* The alarm id a timer key belongs to: the key without its "snooze-" prefixes.
RECURSIVE ParentId(_)
ParentId(key) ==
    IF StartsWith(key, SnoozePrefix) THEN ParentId(Replace(key, SnoozePrefix))
    ELSE key

\* C10: after a snooze has been handled, on the native path or on the ringing
\* screen, for a firing that carried the id last.key and whose record exists, a
\* one-shot timer keyed "snooze-" + last.key is pending for now + 5 minutes.
C10_SnoozeArmsSnoozeTimer ==
    (/\ last.op \in {"snooze", "ringSnooze"}
     /\ ParentId(last.key) \in DOMAIN alarms
     /\ exactAllowed) =>
        \/ \E e \in TimersFor(SnoozePrefix \o last.key) :
               /\ e.triggerTime = now + SnoozeMinutes * TicksPerMinute
               /\ ~e.isRepeating
        \/ \E n \in expo :
               /\ n.isSnooze /\ n.alarmId = last.key
               /\ n.trigger = DateTrigger(now + SnoozeMinutes * TicksPerMinute)

\* C3: every firing of an enabled repeating alarm is eventually followed by a
\* state in which a timer for its id is pending again, whatever the user does
\* or omits.  The firing is also taken as answered while a snooze of the alarm
\* is still pending, and when the record has stopped being an enabled repeating
\* alarm, so that a violation ends with nothing left that could fire.
Fired(id) == last.op = "fire" /\ last.key = id /\ Repeating(id) /\ Enabled(id)
Rearmed(id) ==
    \/ TimersFor(id) # {} \/ ExpoFor(id) # {}
    \/ SnoozesFor(id) # {}
    \/ ~(Repeating(id) /\ Enabled(id))
C3_RepeatingRearmsAfterFiring == \A id \in Ids : Fired(id) ~> Rearmed(id)

OwnTimers(p, x, id) ==
    {e \in p : e.alarmId = id} \cup {n \in x : n.alarmId = id /\ ~n.isSnooze}

Snoozed == last.op \in {"snooze", "ringSnooze"}

\* C11: a step that handles a snooze, on the native path or on the ringing
\* screen, leaves the alarms table as it was (enabled, repeatDays, time and the
\* stored handle of the parent record) and leaves what is scheduled under the
\* parent's own id as it was.
C11_SnoozeLeavesParent ==
    [][(last'.op \in {"snooze", "ringSnooze"}) =>
          /\ alarms' = alarms
          /\ LET id == ParentId(last'.key)
             IN  OwnTimers(pending', expo', id) = OwnTimers(pending, expo, id)]_vars

\* A snooze handled while the parent record exists and has a timer of its own.
C11_Witness ==
    /\ Snoozed
    /\ ParentId(last.key) \in DOMAIN alarms
    /\ OwnTimers(pending, expo, ParentId(last.key)) # {}
    /\ SnoozesFor(ParentId(last.key)) # {}

\* The step answers the firing of a snooze entry: on the native path the
\* event carries the key of the entry, on the ringing screen the latest firing
\* was a snooze notification of the alarm.
AnswersSnooze ==
    \/ /\ last'.op \in {"dismiss", "snooze"}
       /\ StartsWith(last'.key, SnoozePrefix)
    \/ /\ last'.op \in {"ringDismiss", "ringSnooze"}
       /\ firing.snooze /\ firing.key = last'.key

\* C12: a step that dismisses or snoozes the firing of a snooze entry leaves
\* the parent record's enabled flag and what is scheduled under the parent's
\* own id as they were, on the native path and on the ringing screen.
C12_SnoozeAnswerLeavesParent ==
    [][AnswersSnooze =>
          LET id == ParentId(last'.key)
          IN  /\ id \in DOMAIN alarms =>
                     /\ id \in DOMAIN alarms'
                     /\ alarms'[id].enabled = alarms[id].enabled
              /\ OwnTimers(pending', expo', id) = OwnTimers(pending, expo, id)]_vars

\* -------------------------------------------------------- the signal channel
\* C13: a dismiss or snooze signal emitted while no listener is attached is
\* not lost: it leaves the channel between AlarmActivity and the event service
\* only by reaching its handler.
C13_SignalNotLost ==
    [][(/\ last.op = "click" /\ ~jsRunning
        /\ inbox # <<>> /\ inbox' = Tail(inbox)) =>
          /\ last'.op \in {"dismiss", "snooze"}
          /\ last'.key = Head(inbox).alarmId]_vars

\* ------------------------------------------------- one firing, one screen
\* C14: the launches and listeners that answer one firing of a timer open at
\* most one ringing screen for that firing.
C14_OneScreenPerFiring == firing.screens <= 1

IsSignal(t) == t.kind \in {"dismiss", "snooze"}

\* C15: signals for one alarm id are processed in emission order: the handler
\* of a later signal has not read the store (it is still before its
\* getAlarmById) as long as the handler of an earlier signal for the same id
\* has not finished.
C15_SignalsInEmissionOrder ==
    \A i, j \in DOMAIN tasks :
        (/\ i < j
         /\ IsSignal(tasks[i]) /\ IsSignal(tasks[j])
         /\ tasks[i].id = tasks[j].id
         /\ tasks[j].pc # "get")
            => tasks[i].pc = "done"

\* C17: a dismiss or snooze signal is one serialized operation: from the
\* handler's read of the record (getAlarmById) to its resulting write or arm
\* request, the stored record is the one the handler read.
C17_SignalIsSerialized ==
    \A i \in DOMAIN tasks :
        (IsSignal(tasks[i]) /\ tasks[i].pc \notin {"get", "done"})
            => getAlarmById(alarms, tasks[i].id) = tasks[i].seen

Mutating(t) == t.kind \in {"toggle", "update"}

\* What an operation makes of a row when it runs alone: a toggle flips
\* enabled; a save from the editor changes the fields edited (time,
\* repeatDays) of the record that is stored when it runs.
Edit(t, row) ==
    IF t.kind = "toggle"
    THEN [row EXCEPT !.enabled = IF row.enabled = 1 THEN 0 ELSE 1]
    ELSE [row EXCEPT !.time = alarmToRow(The(t.arg)).time,
                     !.repeatDays = alarmToRow(The(t.arg)).repeatDays]

\* C16: two concurrent operations among toggle and update on one id lose no
\* update: once both have returned, the stored record is the one that results
\* from applying the two, one after the other in some order, to the record
\* stored when the first was issued.
C16_NoLostUpdate ==
    (/\ Len(tasks) = 2
     /\ Mutating(tasks[1]) /\ Mutating(tasks[2])
     /\ tasks[1].id = tasks[2].id
     /\ tasks[2].overlap
     /\ tasks[1].pc = "done" /\ tasks[2].pc = "done"
     /\ tasks[1].id \in DOMAIN alarms)
        => LET base == The(tasks[1].base)
           IN  alarms[tasks[1].id] \in
                   {Edit(tasks[2], Edit(tasks[1], base)),
                    Edit(tasks[1], Edit(tasks[2], base))}

\* A handler that re-arms: handleDismiss of a repeating alarm.
Rearms(t) == t.kind = "dismiss" /\ t.seen # None /\ t.pc \in {"cancel", "schedule", "done"}
                /\ The(t.seen).repeatDays # {}

\* C18: within every re-arm of an alarm id the disarm of the timer armed before
\* comes first and is complete when the arm request is issued: the step that
\* takes a re-arm to its arm request leaves no timer pending for the id, and no
\* step leaves two timers pending for one id.
C18_DisarmBeforeRearm ==
    [][/\ \A id \in Ids : Cardinality(OwnTimers(pending', expo', id)) <= 1
       /\ \A i \in DOMAIN tasks :
            (/\ Rearms(tasks[i])
             /\ tasks[i].pc = "cancel" /\ tasks'[i].pc = "schedule")
                => OwnTimers(pending', expo', tasks[i].id) = {}]_vars

\* A re-arm has returned: the timer armed before it was pending when it
\* started, and one timer is pending for the id after it.
C18_Witness ==
    \E i \in DOMAIN tasks :
        /\ Rearms(tasks[i]) /\ tasks[i].pc = "done"
        /\ The(tasks[i].seen).notificationId # None
        /\ notifGranted /\ exactAllowed
        /\ Cardinality(OwnTimers(pending, expo, tasks[i].id)) = 1

\* C19: when exact alarms may not be scheduled, scheduleAlarmNotification does
\* not claim success: the call returns no handle, no timer is pending for the
\* alarm after it, and the record is left as it was, enabled.
C19_NoExactNoHandle ==
    [][\A i \in DOMAIN tasks :
          (/\ tasks[i].pc = "schedule" /\ tasks'[i].pc = "done"
           /\ ~exactAllowed)
              => /\ rearmStep("schedule", Gateway, tasks[i].id,
                              The(tasks[i].seen)).handle = None
                 /\ OwnTimers(pending', expo', tasks[i].id) = {}
                 /\ alarms' = alarms]_vars

\* The call has returned without the permission for exact alarms; the record
\* is enabled and nothing is armed for it.
C19_Witness ==
    \E i \in DOMAIN tasks :
        /\ Rearms(tasks[i]) /\ tasks[i].pc = "done"
        /\ notifGranted /\ ~exactAllowed
        /\ tasks[i].id \in DOMAIN alarms
        /\ alarms[tasks[i].id].enabled = 1
        /\ OwnTimers(pending, expo, tasks[i].id) = {}

\* What scheduleAlarmNotification returns when requestPermissions is false.
PermissionDenied == None

\* C20: a permission denial is reported as an outcome of its own: a call of
\* scheduleAlarmNotification that had the permission and failed because the
\* gateway call threw returns something else than a denied call does.
C20_DenialIsDistinct ==
    (last.op = "armFailed" /\ last.key \in Ids /\ notifGranted)
        => last.result # PermissionDenied

\* C21: deleting an alarm disarms it: once the record of an id is gone, no
\* timer is pending for the id in either gateway, neither the alarm's own nor
\* a snooze of it, so nothing can fire for a deleted alarm.
C21_DeletedIsDisarmed ==
    \A id \in Ids :
        (last.op = "delete" /\ last.key = id) =>
            /\ OwnTimers(pending, expo, id) = {}
            /\ SnoozesFor(id) = {}

\* C22: toggling a disabled record to enabled and back to disabled returns it
\* to a state with no live handle, every field other than enabled and the
\* handle being as before: each toggle flips enabled and leaves the time and
\* the repeat days as they are, and a toggle that disables leaves no handle in
\* the record and no timer of the alarm pending.
C22_ToggleRoundTrip ==
    [][last'.op = "toggle" =>
          LET id == last'.key
          IN  /\ id \in DOMAIN alarms'
              /\ alarms'[id].time = alarms[id].time
              /\ alarms'[id].repeatDays = alarms[id].repeatDays
              /\ alarms'[id].enabled = 1 - alarms[id].enabled
              /\ alarms'[id].enabled = 0 =>
                    /\ alarms'[id].notificationId = None
                    /\ OwnTimers(pending', expo', id) = {}]_vars

\* The record has been toggled twice, to enabled and back.
C22_Witness ==
    /\ last.op = "toggle" /\ edits = 2
    /\ ~Enabled(last.key)
    /\ alarms[last.key].notificationId = None

\* C23: an alarm with repeat days fires only on weekdays that are among them,
\* on the exact-timer path and on the notification path alike (a snooze of it
\* apart).
C23_FiresOnRepeatDays ==
    \A id \in Ids :
        (/\ last.op = "fire" /\ last.key = id
         /\ ~firing.snooze
         /\ Repeating(id))
            => GetDay(now) \in {dayMap(d) : d \in alarms[id].repeatDays}

MutatingOps == {"addAlarm", "updateAlarm", "deleteAlarm", "toggleAlarm"}
ReadOps == {"getAlarms", "getAlarmById", "getAlarmsByEnabledState", "getAlarmsCount"}

\* C24: a mutating store operation that completes without error returns the
\* refreshed full list: the list returned is the store's contents after the
\* mutation, with the record created and without the id deleted.
C24_ReturnsRefreshedList ==
    (last.op \in MutatingOps /\ last.result # Thrown) =>
        /\ last.result \in {Returned("list", l) : l \in SelectAll(alarms)}
        /\ last.op = "addAlarm" => last.key \in DOMAIN alarms
        /\ last.op = "deleteAlarm" => last.key \notin DOMAIN alarms

\* C25: a mutating operation addressed to an id that is not stored (update,
\* delete, toggle) fails with an error and leaves every stored record as it
\* was.
C25_AbsentIdFails ==
    [][(/\ last'.op \in {"updateAlarm", "deleteAlarm", "toggleAlarm"}
        /\ last'.key \notin DOMAIN alarms)
          => /\ last'.result = Thrown
             /\ alarms' = alarms]_vars

\* C26: a store failure during a mutating operation is propagated to the
\* caller as an error: a call during which the database failed throws, and no
\* call returns normally when its write did not take effect.
C26_FailurePropagates ==
    [][last'.op \in MutatingOps =>
          /\ last'.pre.fault # "none" => last'.result = Thrown
          /\ (last'.pre.fault \in {"open", "write", "get"} /\ last'.pre.present)
                => alarms' = alarms]_vars

\* The empty result of a read function.
EmptyResult(op) ==
    CASE op = "getAlarmById" -> Returned("alarm", None)
      [] op = "getAlarmsCount" -> Returned("count", 0)
      [] OTHER -> Returned("list", <<>>)

\* C27: a store failure during a read operation never raises to the caller:
\* no read throws, a read during which the database failed returns the empty
\* result (empty list, null or 0), and the store is unchanged.
C27_ReadsNeverRaise ==
    [][last'.op \in ReadOps =>
          /\ last'.result # Thrown
          /\ last'.pre.fault # "none" => last'.result = EmptyResult(last'.op)
          /\ alarms' = alarms]_vars

\* A read has returned its empty result from a store that is not empty, the
\* database having failed.
C27_Witness ==
    /\ last.op \in ReadOps
    /\ last.pre.fault # "none"
    /\ last.result = EmptyResult(last.op)
    /\ alarms # EmptyTable

\* C28: ids are unique and immutable: creating a record whose id is stored
\* fails and leaves the stored record unchanged, and an update or a toggle
\* leaves the set of stored ids as it is, the rows of the other ids included.
C28_IdUniqueImmutable ==
    [][/\ (last'.op = "addAlarm" /\ last'.pre.present)
            => last'.result = Thrown /\ alarms' = alarms
       /\ last'.op \in {"updateAlarm", "toggleAlarm"}
            => /\ DOMAIN alarms' = DOMAIN alarms
               /\ \A k \in DOMAIN alarms \ {last'.key} : alarms'[k] = alarms[k]]_vars

\* A record has been created under an id that was stored already, with other
\* contents, and the call has failed.
C28_Witness ==
    /\ last.op = "addAlarm" /\ last.pre.present /\ last.pre.fault = "none"
    /\ last.result = Thrown
    /\ Cardinality(DOMAIN alarms) = 2

\* The iteration of the day scan at which getNextOccurrence returns: the
\* value of i at the return inside the loop, 7 when the loop runs out.
RECURSIVE ScanExit(_, _, _)
ScanExit(candidate, repeatDayNumbers, i) ==
    IF i >= 7 THEN 7
    ELSE IF GetDay(candidate) \in repeatDayNumbers THEN i
    ELSE ScanExit(AddDay(candidate), repeatDayNumbers, i + 1)

CalcExit ==
    ScanExit(FirstCandidate(CalcNow, GetMinuteOfDay(CalcTime), CalcNow),
             {dayMap(d) : d \in CalcRepeat}, 0)

\* C29: getNextOccurrence is total and bounded: it returns an instant for
\* every input, and for non-empty repeatDays the day scan returns from inside
\* the loop, at one of its 7 iterations, with the candidate of that iteration;
\* the fallback after the loop is not reached.
C29_ScanFindsMatch ==
    CalcDone =>
        /\ CalcResult \in Nat
        /\ CalcRepeat # {} =>
              /\ CalcExit \in 0..6
              /\ CalcResult =
                    FirstCandidate(CalcNow, GetMinuteOfDay(CalcTime), CalcNow)
                        + CalcExit * TicksPerDay

\* The longest scan: the only repeat day is today's weekday and the time of
\* day has passed, so the match is the seventh candidate.
C29_Witness ==
    /\ CalcDone
    /\ Cardinality(CalcRepeat) = 1
    /\ CalcExit = 6
    /\ GetDay(CalcResult) = GetDay(CalcNow)

\* C30: the next-occurrence computation is deterministic given now: with the
\* same time of day, the same repeatDays and the same current instant it
\* returns the same instant, whatever date the stored time carries, and a
\* later second reading of the clock (the next tick) does not change it.
C30_DeterministicGivenNow ==
    CalcDone =>
        /\ \A t \in 0..(CalcAlarmDays * TicksPerDay - 1) :
              t % TicksPerDay = CalcTime % TicksPerDay =>
                  GetNextOccurrence(t, CalcRepeat, CalcNow, CalcNow) = CalcResult
        /\ GetNextOccurrence(CalcTime, CalcRepeat, CalcNow, CalcNow + 1) = CalcResult

\* C31: after cancelAllNotifications has completed, no timer is pending in
\* either gateway, for any alarm id or snooze key.
C31_DisarmAllLeavesNothing ==
    last.op = "disarmAll" => pending = {} /\ expo = {}

\* C32: after a reboot has cleared the pending timers, once the application
\* has started, every record with enabled = true eventually has a timer
\* pending again for its id (unless the record is disabled or the application
\* stopped before that).
C32_RestoredAfterReboot ==
    \A id \in Ids :
        (last.op = "start" /\ last.pre /\ Enabled(id))
            ~> (TimersFor(id) # {} \/ ~Enabled(id) \/ ~jsRunning)

\* ------------------------------------------- timers of several alarms
\* Two ids as the editor makes them, the digits of Date.now():
\* "1754632696227" and "1769444484328".
KeyIds ==
    {<<49, 55, 53, 52, 54, 51, 50, 54, 57, 54, 50, 50, 55>>,
     <<49, 55, 54, 57, 52, 52, 52, 52, 56, 52, 51, 50, 56>>}

\* The keys a timer can be armed under: an id, or "snooze-" + id.
TimerKeys == KeyIds \cup {SnoozePrefix \o id : id \in KeyIds}

\* Arm and cancel requests for the ids of KeyIds, on the native path.
NextKey ==
    \/ Tick
    \/ \E id \in KeyIds, t \in ArmTimes :
           \E h \in ArmHandles(id) : ArmAlarm(id, t, {}, h)
    \/ \E id \in KeyIds : ArmSnooze(id)
    \/ \E id \in KeyIds : Disarm(NativePrefix \o id)
    \/ \E id \in KeyIds : Disarm(NativePrefix \o SnoozePrefix \o id)

KeySpec == InitArm /\ [][NextKey]_vars

\* C33: arming or cancelling the timer of one key never replaces, moves or
\* cancels the pending timer of a different key (a different id, or
\* "snooze-" + id).
C33_TimersIndependent ==
    [][\A a, b \in TimerKeys :
          (a # b /\ last'.key = a /\ last'.op \in {"arm", "armFailed", "disarm"})
              => TimersFor(b)' = TimersFor(b)]_vars

\* C34: handling a dismissal for a one-time alarm whose record is already
\* disabled leaves the record disabled.
C34_DismissKeepsDisabled ==
    \A id \in Ids :
        (Dismissed(id) /\ OneTime(id) /\ ~last.pre) => ~Enabled(id)

\* C35: on the native path, passing the handle that scheduleAlarmNotification
\* or scheduleSnoozeNotification returned to cancelNotification cancels the
\* timer of the key that was armed (the id, respectively "snooze-" + id) and
\* the timer of no other key.
C35_HandleRoundTrip ==
    [][(last.op = "arm" /\ last'.op = "disarmReturned")
          => /\ pending' = pending \ TimersFor(last.key)
             /\ TimersFor(last.key)' = {}
             /\ expo' = expo]_vars

C35_Witness ==
    /\ last.op = "disarmReturned"
    /\ last.pre
    /\ last.key \notin Ids
    /\ TimersFor(last.key) = {}
    /\ pending # {}

\* -------------------------------------------------- the alert, step by step
NextAudio ==
    \/ StartPlay
    \/ StartStop
    \/ \E i \in DOMAIN audio.calls : PlayStep(i)
    \/ \E i \in DOMAIN audio.calls : StopStep(i)
    \/ VibrateTimer

AudioSpec == Init /\ [][NextAudio]_vars

AlertEnded ==
    /\ ~audio.isPlaying
    /\ audio.soundObject = None
    /\ audio.sounding = {}

\* C36: once stopAlarmSound has been called, no playAlarmSound has been
\* started after it and every call has returned, the alert has ended:
\* isPlaying is false, no sound object is live and the vibration loop finds
\* isPlaying false at its next turn.
C36_StopEndsAlert ==
    (/\ audio.calls # <<>>
     /\ audio.calls[Len(audio.calls)].kind = "stop"
     /\ \A i \in DOMAIN audio.calls : audio.calls[i].pc = "done")
        => AlertEnded

\* ------------------------------------------------ the 'AlarmEvent' listener
SignalIds == Ids \cup {SnoozePrefix \o id : id \in Ids}

NextEmitter ==
    \/ Initialize
    \/ Cleanup
    \/ \E t \in SignalTypes, id \in SignalIds : EmitAlarmEvent(t, id)

EmitterSpec == Init /\ [][NextEmitter]_vars

\* C37: after any sequence of initialize and cleanup calls at most one
\* 'AlarmEvent' listener is registered, a delivered signal calls the handler
\* at most once, and after cleanup no listener is registered.
C37_OneListener ==
    /\ Cardinality(emitter.listeners) <= 1
    /\ last.op = "emit" => The(last.result) <= 1
    /\ last.op = "cleanup" => emitter.listeners = {}

\* C38: after addAlarm(a) or updateAlarm(a) has succeeded, getAlarmById(a.id)
\* returns a record whose time, enabled, repeatDays and handle are those of a,
\* an empty repeatDays and an absent handle included.
C38_StoreRoundTrip ==
    (last.op \in {"addAlarm", "updateAlarm"} /\ last.result # Thrown)
        => getAlarmById(alarms, last.key) = last.pre.arg

\* ------------------------------------------- the store and the handlers
\* The specification FrameSpec keeps two records and runs the mutating
\* functions of the store and the dismiss and snooze handlers on them.
\* A broadcast of AlarmActivity reaches the receiver of AlarmEventModule.
AlarmEventBroadcast(eventType, alarmId) ==
    /\ Len(inbox) < MaxInbox
    /\ inbox' = Append(inbox, [eventType |-> eventType, alarmId |-> alarmId])
    /\ last' = Op("broadcast", alarmId, FALSE)
    /\ UNCHANGED <<now, platformVars, serviceVars, firing, tasks, alarms, pending,
                   notification, activity, jsRunning, expo, nextExpo, ringScreen,
                   userVars>>

\* The alarms the two records are made of: midnight, enabled or not, one-time
\* or repeating, no handle.
FrameAlarms == {a \in StoreAlarms : a.time = 0}

NextFrame ==
    \/ \E id \in StoreIds, a \in FrameAlarms : StoreAdd(id, a, "none")
    \/ \E id \in StoreIds, a \in FrameAlarms : StoreUpdate(id, a, "none")
    \/ \E id \in StoreIds : StoreDelete(id, "none")
    \/ \E id \in StoreIds : StoreToggle(id, "none")
    \/ \E t \in SignalTypes, id \in StoreIds : AlarmEventBroadcast(t, id)
    \/ HandleDismiss
    \/ HandleSnooze

FrameSpec == InitStore /\ [][NextFrame]_vars

\* The records with an id other than id are the same before and after.
OthersKept(id) ==
    /\ DOMAIN alarms' \ {id} = DOMAIN alarms \ {id}
    /\ \A k \in DOMAIN alarms \ {id} : alarms'[k] = alarms[k]

\* C39: toggleAlarm(id) changes only the enabled field of record id;
\* updateAlarm, deleteAlarm and toggleAlarm for id leave every record with a
\* different id unchanged, and the dismiss and snooze handlers for id write no
\* record with a different id.
C39_StoreFrame ==
    [][/\ last'.op \in {"updateAlarm", "deleteAlarm", "toggleAlarm", "dismiss", "snooze"}
          => OthersKept(last'.key)
       /\ (last'.op = "toggleAlarm" /\ last'.key \in DOMAIN alarms)
          => /\ last'.key \in DOMAIN alarms'
             /\ \E e \in {0, 1} :
                   alarms'[last'.key] = [alarms[last'.key] EXCEPT !.enabled = e]]_vars

C39_Witness ==
    /\ last.op = "toggleAlarm"
    /\ last.result # Thrown
    /\ Cardinality(DOMAIN alarms) = 2
    /\ \E k \in DOMAIN alarms \ {last.key} : alarms[k].enabled # alarms[last.key].enabled

=============================================================================
